---- MODULE Spec2Model ----
(***************************************************************************)
(* A model of difftastic.nvim: the display processor (src/processor.rs),   *)
(* the parser of difftastic's JSON (src/difftastic.rs) and the driver      *)
(* (src/lib.rs).                                                           *)
(*                                                                         *)
(* The specifications share the variables below; each leaves the           *)
(* variables of the others idle:                                           *)
(*   Spec        process_file on one DifftFile with its old and new lines, *)
(*               one step per row of process_changed's loop;               *)
(*   SpecHL      compute_highlights on one line and one change list, one   *)
(*               step per branch and per iteration of merge_regions;       *)
(*   SpecRange   parse_git_range on one range;                             *)
(*   SpecParse   parse on one JSON text;                                   *)
(*   SpecRun     run_diff_impl: the diff and statistics commands, then the *)
(*               parallel map, three steps per file, and the files table;  *)
(*   SpecWorker  the parallel map of run_diff_impl on a single file.       *)
(*                                                                         *)
(* Representation.  A String is a sequence of Unicode code points; its     *)
(* bytes are its UTF-8 encoding.  Option<T> is <<>> (None) or <<x>>        *)
(* (Some(x)).  A HashMap is a function on the set of its keys.  Rust       *)
(* indices are 0-based and TLA+ sequences 1-based: element i of a Vec is   *)
(* v[i + 1].  u32 and i32 are modelled IntBits wide, because TLC's         *)
(* integers cannot hold a u32 above i32::MAX.  A Result is [ok |-> x] or   *)
(* [err |-> e].                                                            *)
(***************************************************************************)
EXTENDS Integers, Sequences, FiniteSets, TLC

\* ---------------------------------------------------------------- bounds
MaxLen == 2          \* characters of a line given to compute_highlights
MaxOff == 3          \* largest ordinary byte offset of a change
MaxChanges == 2      \* changes of one line given to compute_highlights
MaxRows == 3         \* entries of aligned_lines
IntBits == 4         \* modelled width of u32 and i32

\* ------------------------------------------------------- integers, Option
U32Max == 2 ^ IntBits - 1
I32Max == 2 ^ (IntBits - 1) - 1

None == << >>
Some(x) == << x >>

Max(a, b) == IF a >= b THEN a ELSE b

\* ------------------------------------------------------ strings and bytes
\* Code points used in lines: 'a', ' ', U+00E9 (two bytes, not whitespace)
\* and U+00A0 (two bytes, whitespace for char but not ASCII whitespace).
Chars == {97, 32, 233, 160}

\* UTF-8 encoding of a code point below U+0800.
Utf8(c) == IF c < 128 THEN << c >> ELSE << 192 + (c \div 64), 128 + (c % 64) >>

RECURSIVE as_bytes(_)
as_bytes(s) == IF s = << >> THEN << >> ELSE Utf8(Head(s)) \o as_bytes(Tail(s))

\* str::len: the length in bytes.
len(s) == Len(as_bytes(s))

\* str::char_indices: <<byte offset, char>> for every char, in order.
RECURSIVE char_indices_from(_, _)
char_indices_from(s, off) ==
    IF s = << >> THEN << >>
    ELSE << << off, Head(s) >> >> \o char_indices_from(Tail(s), off + Len(Utf8(Head(s))))

char_indices(s) == char_indices_from(s, 0)

\* u8::is_ascii_whitespace: space, tab, line feed, form feed, carriage return.
is_ascii_whitespace(b) == b \in {9, 10, 12, 13, 32}

\* char::is_whitespace: the Unicode White_Space property.
is_whitespace(c) ==
    \/ c \in 9..13
    \/ c \in {32, 133, 160, 5760, 8232, 8233, 8239, 8287, 12288}
    \/ c \in 8192..8202

\* ------------------------------------------------------- HighlightRegion
full_line == [start |-> 0, end |-> -1]

\* Mutation: a wrapping cast, end as i32.
columns_wrapping(start, end) ==
    [start |-> start, end |-> IF end <= I32Max THEN end ELSE end - 2 ^ IntBits]

\* i32::try_from(end).unwrap_or(i32::MAX)
columns(start, end) == [start |-> start, end |-> IF end <= I32Max THEN end ELSE I32Max]

\* ---------------------------------------------------- compute_highlights
\* Mutation: the slice is clamped to the line instead of rejected.
is_whitespace_only_clamped(bytes, start, end) ==
    \A i \in (start + 1)..end : i <= Len(bytes) => is_ascii_whitespace(bytes[i])

\* Mutation: the slice is open-ended, bytes.get(start..).
is_whitespace_only_open_ended(bytes, start, end) ==
    /\ start <= Len(bytes)
    /\ \A i \in (start + 1)..Len(bytes) : is_ascii_whitespace(bytes[i])

\* bytes.get(start..end) is Some exactly when start <= end <= bytes.len().
is_whitespace_only(bytes, start, end) ==
    /\ start <= end
    /\ end <= Len(bytes)
    /\ \A i \in (start + 1)..end : is_ascii_whitespace(bytes[i])

\* Mutation: only touching or overlapping regions are merged.
merge_one_no_bridge(merged, region, bytes) ==
    IF merged # << >> /\ merged[Len(merged)][2] >= region[1]
    THEN [merged EXCEPT ![Len(merged)] = << @[1], Max(@[2], region[2]) >>]
    ELSE Append(merged, region)

\* The body of merge_regions' loop for one region <<start, end>>.
merge_one(merged, region, bytes) ==
    IF merged # << >>
       /\ LET gap_start == merged[Len(merged)][2]
              gap_end == region[1]
          IN gap_start >= gap_end \/ is_whitespace_only(bytes, gap_start, gap_end)
    THEN [merged EXCEPT ![Len(merged)] = << @[1], Max(@[2], region[2]) >>]
    ELSE Append(merged, region)

RECURSIVE merge_from(_, _, _)
merge_from(merged, regions, bytes) ==
    IF regions = << >> THEN merged
    ELSE merge_from(merge_one(merged, Head(regions), bytes), Tail(regions), bytes)

merge_regions(regions, bytes) == merge_from(<< >>, regions, bytes)

\* Mutation: has_non_ws is not required.
covers_all_non_whitespace_vacuous(line, regions) ==
    LET ci == char_indices(line)
    IN \A k \in 1..Len(ci) :
          ~is_whitespace(ci[k][2]) =>
              \E r \in 1..Len(regions) : ci[k][1] >= regions[r][1] /\ ci[k][1] < regions[r][2]

covers_all_non_whitespace(line, regions) ==
    LET ci == char_indices(line)
        nonws == {k \in 1..Len(ci) : ~is_whitespace(ci[k][2])}
    IN /\ nonws # {}
       /\ \A k \in nonws :
            \E r \in 1..Len(regions) : ci[k][1] >= regions[r][1] /\ ci[k][1] < regions[r][2]

\* changes.iter().map(|c| (c.start, c.end)).collect()
to_regions(chs) == [i \in 1..Len(chs) |-> << chs[i].start, chs[i].end >>]

IndexOrders(n) == {p \in [1..n -> 1..n] : \A i, j \in 1..n : i # j => p[i] # p[j]}

\* sort_unstable_by_key(|r| r.0): every ordering by start is a possible
\* result, because an unstable sort may reorder regions with equal starts.
sort_unstable_by_key(regs) ==
    {[i \in 1..Len(regs) |-> regs[p[i]]] : p \in
        {q \in IndexOrders(Len(regs)) :
            \A i \in 1..(Len(regs) - 1) : regs[q[i]][1] <= regs[q[i + 1]][1]}}

changes_is_empty(chs) == chs = << >>

\* Mutation: the change must end exactly at the end of the line.
single_full_span_exact(line, chs) ==
    Len(chs) = 1 /\ chs[1].start = 0 /\ chs[1].end = len(line)

single_full_span(line, chs) ==
    Len(chs) = 1 /\ chs[1].start = 0 /\ chs[1].end >= len(line)

to_highlights(merged) == [i \in 1..Len(merged) |-> columns(merged[i][1], merged[i][2])]

\* The set of results compute_highlights can return (one per sort order).
compute_highlights(line, chs) ==
    IF changes_is_empty(chs) THEN {<< >>}
    ELSE IF single_full_span(line, chs) THEN {<< full_line >>}
    ELSE {IF covers_all_non_whitespace(line, merge_regions(rs, as_bytes(line)))
          THEN << full_line >>
          ELSE to_highlights(merge_regions(rs, as_bytes(line)))
            : rs \in sort_unstable_by_key(to_regions(chs))}

\* ------------------------------------------------------------------ state
VARIABLES
    pc,            \* position in process_file
    file,          \* the DifftFile
    old_lines,
    new_lines,
    file_stats,    \* run_diff_impl: stats.get(&file.path).copied()
    lhs_changes,   \* process_changed: the two maps of extract_changes
    rhs_changes,
    rows,
    hunk_starts,
    in_hunk,
    row_idx,
    result,        \* Some(DisplayFile) once process_file has returned
    hl_pc,         \* position in compute_highlights
    content,       \* compute_highlights' line
    changes,       \* compute_highlights' change list
    regions,       \* the sorted regions
    merged,        \* merge_regions' accumulator
    next_region,   \* number of regions merge_regions has consumed
    highlights     \* Some(result) once compute_highlights has returned

file_vars == << pc, file, old_lines, new_lines, file_stats, lhs_changes, rhs_changes,
                rows, hunk_starts, in_hunk, row_idx, result >>
hl_vars == << hl_pc, content, changes, regions, merged, next_region, highlights >>

VARIABLES
    range,         \* parse_git_range's argument
    merge_base,    \* what git_merge_base finds for the range's two sides
    refs,          \* Some(<<old, new>>) once parse_git_range has returned
    json,          \* parse's argument
    parsed,        \* Some(Result) once parse has returned
    run_pc,        \* position in run_diff_impl
    vcs,           \* run_diff_impl's vcs argument
    diff_output,   \* the outcome of the external diff command
    stats_output,  \* the outcome of the statistics command
    repo,          \* per path, the content the VCS has for each revision
    files,         \* the parsed Vec<DifftFile>
    stats,         \* the FileStats map
    workers,       \* per file, the state of the parallel map's closure
    display_files, \* per file, the slot the map's result is collected into
    finished,      \* the file indices in the order their closures returned
    lua_result     \* Some(LuaResult) once run_diff_impl has returned

range_vars == << range, merge_base, refs >>
parse_vars == << json, parsed >>
run_vars == << run_pc, vcs, diff_output, stats_output, repo, files, stats,
               workers, display_files, finished, lua_result >>
lib_vars == << range, merge_base, refs, json, parsed,
               run_pc, vcs, diff_output, stats_output, repo, files, stats,
               workers, display_files, finished, lua_result >>

vars == << pc, file, old_lines, new_lines, file_stats, lhs_changes, rhs_changes,
           rows, hunk_starts, in_hunk, row_idx, result,
           hl_pc, content, changes, regions, merged, next_region, highlights,
           range, merge_base, refs, json, parsed,
           run_pc, vcs, diff_output, stats_output, repo, files, stats,
           workers, display_files, finished, lua_result >>

\* ------------------------------------------------- inputs of SpecHL
RECURSIVE SeqsUpTo(_, _)
SeqsUpTo(S, n) ==
    IF n = 0 THEN {<< >>}
    ELSE LET shorter == SeqsUpTo(S, n - 1)
         IN shorter \cup {Append(s, x) : s \in shorter, x \in S}

Offsets == (0..MaxOff) \cup {U32Max}
Changes == [start : Offsets, end : Offsets]
Lines == SeqsUpTo(Chars, MaxLen)
ChangeLists == SeqsUpTo(Changes, MaxChanges)

FileIdle ==
    /\ pc = "idle"
    /\ file = << >>
    /\ old_lines = << >>
    /\ new_lines = << >>
    /\ file_stats = None
    /\ lhs_changes = << >>
    /\ rhs_changes = << >>
    /\ rows = << >>
    /\ hunk_starts = << >>
    /\ in_hunk = FALSE
    /\ row_idx = 0
    /\ result = None

HLIdle ==
    /\ hl_pc = "idle"
    /\ content = << >>
    /\ changes = << >>
    /\ regions = << >>
    /\ merged = << >>
    /\ next_region = 0
    /\ highlights = None

RangeIdle ==
    /\ range = << >>
    /\ merge_base = None
    /\ refs = None

ParseIdle ==
    /\ json = << >>
    /\ parsed = None

RunIdle ==
    /\ run_pc = "idle"
    /\ vcs = "git"
    /\ diff_output = << >>
    /\ stats_output = None
    /\ repo = << >>
    /\ files = << >>
    /\ stats = << >>
    /\ workers = << >>
    /\ display_files = << >>
    /\ finished = << >>
    /\ lua_result = None

LibIdle == RangeIdle /\ ParseIdle /\ RunIdle

InitHL ==
    /\ FileIdle
    /\ LibIdle
    /\ hl_pc = "start"
    /\ content \in Lines
    /\ changes \in ChangeLists
    /\ regions = << >>
    /\ merged = << >>
    /\ next_region = 0
    /\ highlights = None

\* ------------------------------------------ compute_highlights, stepwise
\* if changes.is_empty() { return Highlights::new(); }
HLEmpty ==
    /\ hl_pc = "start"
    /\ changes_is_empty(changes)
    /\ highlights' = Some(<< >>)
    /\ hl_pc' = "done"
    /\ UNCHANGED << content, changes, regions, merged, next_region >>
    /\ UNCHANGED file_vars
    /\ UNCHANGED lib_vars

\* A single change covering the entire line.
HLSingleFull ==
    /\ hl_pc = "start"
    /\ ~changes_is_empty(changes)
    /\ single_full_span(content, changes)
    /\ highlights' = Some(<< full_line >>)
    /\ hl_pc' = "done"
    /\ UNCHANGED << content, changes, regions, merged, next_region >>
    /\ UNCHANGED file_vars
    /\ UNCHANGED lib_vars

\* Collect and sort the regions; merge_regions starts with an empty result.
HLSort ==
    /\ hl_pc = "start"
    /\ ~changes_is_empty(changes)
    /\ ~single_full_span(content, changes)
    /\ regions' \in sort_unstable_by_key(to_regions(changes))
    /\ merged' = << >>
    /\ next_region' = 0
    /\ hl_pc' = "merge"
    /\ UNCHANGED << content, changes, highlights >>
    /\ UNCHANGED file_vars
    /\ UNCHANGED lib_vars

\* One iteration of merge_regions' loop.
HLMergeStep ==
    /\ hl_pc = "merge"
    /\ next_region < Len(regions)
    /\ merged' = merge_one(merged, regions[next_region + 1], as_bytes(content))
    /\ next_region' = next_region + 1
    /\ UNCHANGED << hl_pc, content, changes, regions, highlights >>
    /\ UNCHANGED file_vars
    /\ UNCHANGED lib_vars

\* The merged regions cover all non-whitespace: full-line highlight.
HLCollapse ==
    /\ hl_pc = "merge"
    /\ next_region = Len(regions)
    /\ covers_all_non_whitespace(content, merged)
    /\ highlights' = Some(<< full_line >>)
    /\ hl_pc' = "done"
    /\ UNCHANGED << content, changes, regions, merged, next_region >>
    /\ UNCHANGED file_vars
    /\ UNCHANGED lib_vars

\* Return the individual regions.
HLRegions ==
    /\ hl_pc = "merge"
    /\ next_region = Len(regions)
    /\ ~covers_all_non_whitespace(content, merged)
    /\ highlights' = Some(to_highlights(merged))
    /\ hl_pc' = "done"
    /\ UNCHANGED << content, changes, regions, merged, next_region >>
    /\ UNCHANGED file_vars
    /\ UNCHANGED lib_vars

NextHL ==
    \/ HLEmpty
    \/ HLSingleFull
    \/ HLSort
    \/ HLMergeStep
    \/ HLCollapse
    \/ HLRegions

SpecHL == InitHL /\ [][NextHL]_vars

\* ---------------------------------------------------------- process_file
\* Side::new(content, is_filler, highlights)
side_new(c, is_filler, hl) == [content |-> c, is_filler |-> is_filler, highlights |-> hl]

\* Side::filler()
side_filler == side_new(<< >>, TRUE, << >>)

\* Mutation: the whole line as an explicit range instead of the sentinel.
with_full_highlight_explicit(c) == side_new(c, FALSE, << columns(0, len(c)) >>)

\* Side::with_full_highlight(content)
with_full_highlight(c) == side_new(c, FALSE, << full_line >>)

\* Mutation: entry(key).or_insert(value), the first entry wins.
insert_keep_first(map, key, value) ==
    [k \in (DOMAIN map) \cup {key} |-> IF k \in DOMAIN map THEN map[k] ELSE value]

insert(map, key, value) ==
    [k \in (DOMAIN map) \cup {key} |-> IF k = key THEN value ELSE map[k]]

\* Mutation: a side with an empty change list is not recorded.
extract_line_skip_empty(maps, diff_line) ==
    << IF diff_line.lhs # None /\ diff_line.lhs[1].changes # << >>
       THEN [k \in (DOMAIN maps[1]) \cup {diff_line.lhs[1].line_number} |->
                IF k = diff_line.lhs[1].line_number THEN diff_line.lhs[1].changes ELSE maps[1][k]]
       ELSE maps[1],
       IF diff_line.rhs # None /\ diff_line.rhs[1].changes # << >>
       THEN [k \in (DOMAIN maps[2]) \cup {diff_line.rhs[1].line_number} |->
                IF k = diff_line.rhs[1].line_number THEN diff_line.rhs[1].changes ELSE maps[2][k]]
       ELSE maps[2] >>

\* The body of extract_changes' inner loop for one DiffLine; maps is
\* <<lhs_changes, rhs_changes>>.
extract_line(maps, diff_line) ==
    << IF diff_line.lhs # None
       THEN insert(maps[1], diff_line.lhs[1].line_number, diff_line.lhs[1].changes)
       ELSE maps[1],
       IF diff_line.rhs # None
       THEN insert(maps[2], diff_line.rhs[1].line_number, diff_line.rhs[1].changes)
       ELSE maps[2] >>

RECURSIVE extract_chunk(_, _)
extract_chunk(maps, chunk) ==
    IF chunk = << >> THEN maps
    ELSE extract_chunk(extract_line(maps, Head(chunk)), Tail(chunk))

RECURSIVE extract_from(_, _)
extract_from(maps, chunks) ==
    IF chunks = << >> THEN maps
    ELSE extract_from(extract_chunk(maps, Head(chunks)), Tail(chunks))

extract_changes(chunks) == extract_from(<< << >>, << >> >>, chunks)

\* Mutation: an absent line number is read as line 0.
line_content_default_zero(ln, lines) ==
    IF ln = None THEN (IF Len(lines) > 0 THEN lines[1] ELSE << >>)
    ELSE IF ln[1] < Len(lines) THEN lines[ln[1] + 1] ELSE << >>

\* Mutation: the line number is taken as 1-based.
line_content_one_based(ln, lines) ==
    IF ln # None /\ ln[1] >= 1 /\ ln[1] <= Len(lines) THEN lines[ln[1]] ELSE << >>

\* ln.and_then(|ln| lines.get(ln as usize)).map_or_else(String::new, |s| s.clone())
line_content(ln, lines) ==
    IF ln # None /\ ln[1] < Len(lines) THEN lines[ln[1] + 1] ELSE << >>

\* Mutation: a line without an entry in the map is highlighted in full.
side_highlights_missing_full(ln, map, c) ==
    IF ln = None THEN {<< >>}
    ELSE IF ln[1] \in DOMAIN map THEN compute_highlights(c, map[ln[1]])
    ELSE {<< full_line >>}

\* ln.and_then(|ln| changes.get(&ln)).map_or_else(Highlights::new, |c| compute_highlights(content, c))
side_highlights(ln, map, c) ==
    IF ln # None /\ ln[1] \in DOMAIN map THEN compute_highlights(c, map[ln[1]]) ELSE {<< >>}

\* Mutation: only a missing line number makes a row changed.
is_changed_filler_only(lhs_ln, rhs_ln, left_highlights, right_highlights) ==
    \/ lhs_ln = None
    \/ rhs_ln = None

is_changed(lhs_ln, rhs_ln, left_highlights, right_highlights) ==
    \/ lhs_ln = None
    \/ rhs_ln = None
    \/ left_highlights # << >>
    \/ right_highlights # << >>

\* Mutation: in_hunk is never reset by an unchanged row.
track_hunk_no_reset(starts, inside, idx, changed) ==
    IF changed /\ ~inside THEN << Append(starts, idx), TRUE >> ELSE << starts, inside >>

\* The hunk_starts and in_hunk after the row at row_idx.
track_hunk(starts, inside, idx, changed) ==
    IF changed /\ ~inside THEN << Append(starts, idx), TRUE >>
    ELSE IF ~changed THEN << starts, FALSE >>
    ELSE << starts, inside >>

\* Mutation: a side is a filler when its content is empty.
changed_row_filler_by_content(lhs_ln, rhs_ln, left_content, right_content, left_highlights, right_highlights) ==
    [left |-> side_new(left_content, left_content = << >>, left_highlights),
     right |-> side_new(right_content, right_content = << >>, right_highlights)]

\* Row { left: Side::new(left_content, lhs_ln.is_none(), left_highlights), right: ... }
changed_row(lhs_ln, rhs_ln, left_content, right_content, left_highlights, right_highlights) ==
    [left |-> side_new(left_content, lhs_ln = None, left_highlights),
     right |-> side_new(right_content, rhs_ln = None, right_highlights)]

\* Mutation: the last line is left out.
created_rows_drop_last(lines) ==
    [i \in 1..(Len(lines) - 1) |-> [left |-> side_filler, right |-> with_full_highlight(lines[i])]]

created_rows(lines) ==
    [i \in 1..Len(lines) |-> [left |-> side_filler, right |-> with_full_highlight(lines[i])]]

deleted_rows(lines) ==
    [i \in 1..Len(lines) |-> [left |-> with_full_highlight(lines[i]), right |-> side_filler]]

\* Mutation: a hunk start is recorded for an empty file too.
whole_file_hunk_always(rs) == << 0 >>

whole_file_hunk(rs) == IF rs = << >> THEN << >> ELSE << 0 >>

\* Mutation: additions and deletions are exchanged.
DisplayFile_swapped(f, additions, deletions, rs, starts) ==
    [path |-> f.path, language |-> f.language, status |-> f.status,
     additions |-> deletions, deletions |-> additions,
     rows |-> rs, hunk_starts |-> starts]

DisplayFile(f, additions, deletions, rs, starts) ==
    [path |-> f.path, language |-> f.language, status |-> f.status,
     additions |-> additions, deletions |-> deletions,
     rows |-> rs, hunk_starts |-> starts]

\* ---------------------------------------------------- inputs of Spec
OptLine == {None, Some(0), Some(1)}
AlignedLines == SeqsUpTo(OptLine \X OptLine, MaxRows)

change(s, e) == [start |-> s, end |-> e]
diff_side(ln, chs) == [line_number |-> ln, changes |-> chs]
DiffLine(l, r) == [lhs |-> l, rhs |-> r]

\* "a a", "a" and the empty file.
FileContents == {<< >>, << << 97, 32, 97 >>, << 97 >> >>}

\* Change data: none; one line changed on both sides; two chunks with a
\* one-sided entry, an empty change list, a line named twice and a range
\* that ends past every line; two chunks that name the same old line, with
\* an empty range (start = end) and an inverted one (start > end).
ChunkLists ==
    {<< >>,
     << << DiffLine(Some(diff_side(1, << change(0, 1) >>)),
                    Some(diff_side(1, << change(0, 1), change(2, 3) >>))) >> >>,
     << << DiffLine(None, Some(diff_side(0, << change(0, 3) >>))),
           DiffLine(Some(diff_side(0, << >>)), Some(diff_side(0, << change(2, 3) >>))) >>,
        << DiffLine(Some(diff_side(1, << change(1, U32Max) >>)), None) >> >>,
     << << DiffLine(Some(diff_side(0, << change(0, 1) >>)),
                    Some(diff_side(1, << change(3, 1) >>))) >>,
        << DiffLine(Some(diff_side(0, << change(2, 2) >>)), None) >> >>}

\* The statistics run_diff_impl finds for the file's path: none, or
\* (additions, deletions) of the VCS's numeric-stat command.
FileStats == {None, Some(<< 3, 2 >>)}

Statuses == {"created", "deleted", "changed"}

DifftFiles ==
    [path : {"f.rs"}, language : {"Rust"}, status : Statuses,
     aligned_lines : AlignedLines, chunks : ChunkLists]

Init ==
    /\ HLIdle
    /\ LibIdle
    /\ pc = "start"
    /\ file \in DifftFiles
    /\ old_lines \in FileContents
    /\ new_lines \in FileContents
    /\ file_stats \in FileStats
    /\ lhs_changes = << >>
    /\ rhs_changes = << >>
    /\ rows = << >>
    /\ hunk_starts = << >>
    /\ in_hunk = FALSE
    /\ row_idx = 0
    /\ result = None

\* ------------------------------------------------- process_file, stepwise
\* Mutation: process_created counts the additions from the chunks, as
\* process_changed does.
ProcessCreated_counts_chunks ==
    /\ pc = "start"
    /\ file.status = "created"
    /\ rows' = created_rows(new_lines)
    /\ hunk_starts' = whole_file_hunk(rows')
    /\ result' = Some(DisplayFile(file, Cardinality(DOMAIN extract_changes(file.chunks)[2]), 0,
                                  rows', hunk_starts'))
    /\ pc' = "done"
    /\ UNCHANGED << file, old_lines, new_lines, file_stats, lhs_changes, rhs_changes, in_hunk, row_idx >>
    /\ UNCHANGED hl_vars
    /\ UNCHANGED lib_vars

\* Status::Created => process_created(file, new_lines)
ProcessCreated ==
    /\ pc = "start"
    /\ file.status = "created"
    /\ rows' = created_rows(new_lines)
    /\ hunk_starts' = whole_file_hunk(rows')
    /\ result' = Some(DisplayFile(file, Len(rows'), 0, rows', hunk_starts'))
    /\ pc' = "done"
    /\ UNCHANGED << file, old_lines, new_lines, file_stats, lhs_changes, rhs_changes, in_hunk, row_idx >>
    /\ UNCHANGED hl_vars
    /\ UNCHANGED lib_vars

\* Status::Deleted => process_deleted(file, old_lines)
ProcessDeleted ==
    /\ pc = "start"
    /\ file.status = "deleted"
    /\ rows' = deleted_rows(old_lines)
    /\ hunk_starts' = whole_file_hunk(rows')
    /\ result' = Some(DisplayFile(file, 0, Len(rows'), rows', hunk_starts'))
    /\ pc' = "done"
    /\ UNCHANGED << file, old_lines, new_lines, file_stats, lhs_changes, rhs_changes, in_hunk, row_idx >>
    /\ UNCHANGED hl_vars
    /\ UNCHANGED lib_vars

\* Status::Changed => process_changed: extract_changes and the loop's setup.
ProcessChanged ==
    /\ pc = "start"
    /\ file.status = "changed"
    /\ lhs_changes' = extract_changes(file.chunks)[1]
    /\ rhs_changes' = extract_changes(file.chunks)[2]
    /\ rows' = << >>
    /\ hunk_starts' = << >>
    /\ in_hunk' = FALSE
    /\ row_idx' = 0
    /\ pc' = "rows"
    /\ UNCHANGED << file, old_lines, new_lines, file_stats, result >>
    /\ UNCHANGED hl_vars
    /\ UNCHANGED lib_vars

\* Mutation: the lines are indexed directly (old_lines[ln as usize]), so the
\* iteration cannot complete for a line number past the end of its array.
ProcessRow_indexing ==
    /\ pc = "rows"
    /\ row_idx < Len(file.aligned_lines)
    /\ LET lhs_ln == file.aligned_lines[row_idx + 1][1]
           rhs_ln == file.aligned_lines[row_idx + 1][2]
           left_content == line_content(lhs_ln, old_lines)
           right_content == line_content(rhs_ln, new_lines)
       IN /\ lhs_ln # None => lhs_ln[1] < Len(old_lines)
          /\ rhs_ln # None => rhs_ln[1] < Len(new_lines)
          /\ \E left_highlights \in side_highlights(lhs_ln, lhs_changes, left_content),
                right_highlights \in side_highlights(rhs_ln, rhs_changes, right_content) :
               LET tracked == track_hunk(hunk_starts, in_hunk, row_idx,
                                  is_changed(lhs_ln, rhs_ln, left_highlights, right_highlights))
               IN /\ hunk_starts' = tracked[1]
                  /\ in_hunk' = tracked[2]
                  /\ rows' = Append(rows, changed_row(lhs_ln, rhs_ln, left_content, right_content,
                                                      left_highlights, right_highlights))
    /\ row_idx' = row_idx + 1
    /\ UNCHANGED << pc, file, old_lines, new_lines, file_stats, lhs_changes, rhs_changes, result >>
    /\ UNCHANGED hl_vars
    /\ UNCHANGED lib_vars

\* One iteration of process_changed's loop over aligned_lines.
ProcessRow ==
    /\ pc = "rows"
    /\ row_idx < Len(file.aligned_lines)
    /\ LET lhs_ln == file.aligned_lines[row_idx + 1][1]
           rhs_ln == file.aligned_lines[row_idx + 1][2]
           left_content == line_content(lhs_ln, old_lines)
           right_content == line_content(rhs_ln, new_lines)
       IN \E left_highlights \in side_highlights(lhs_ln, lhs_changes, left_content),
             right_highlights \in side_highlights(rhs_ln, rhs_changes, right_content) :
            LET tracked == track_hunk(hunk_starts, in_hunk, row_idx,
                               is_changed(lhs_ln, rhs_ln, left_highlights, right_highlights))
            IN /\ hunk_starts' = tracked[1]
               /\ in_hunk' = tracked[2]
               /\ rows' = Append(rows, changed_row(lhs_ln, rhs_ln, left_content, right_content,
                                                   left_highlights, right_highlights))
    /\ row_idx' = row_idx + 1
    /\ UNCHANGED << pc, file, old_lines, new_lines, file_stats, lhs_changes, rhs_changes, result >>
    /\ UNCHANGED hl_vars
    /\ UNCHANGED lib_vars

\* Mutation: the counts are taken from the rows built from aligned_lines.
ProcessChangedReturn_counts_rows ==
    /\ pc = "rows"
    /\ row_idx = Len(file.aligned_lines)
    /\ result' = Some(DisplayFile(file,
                       Cardinality({i \in 1..Len(rows) : rows[i].right.highlights # << >>}),
                       Cardinality({i \in 1..Len(rows) : rows[i].left.highlights # << >>}),
                       rows, hunk_starts))
    /\ pc' = "done"
    /\ UNCHANGED << file, old_lines, new_lines, file_stats, lhs_changes, rhs_changes,
                    rows, hunk_starts, in_hunk, row_idx >>
    /\ UNCHANGED hl_vars
    /\ UNCHANGED lib_vars

\* The loop is over: process_changed returns the DisplayFile.
ProcessChangedReturn ==
    /\ pc = "rows"
    /\ row_idx = Len(file.aligned_lines)
    /\ result' = Some(DisplayFile(file, Cardinality(DOMAIN rhs_changes),
                                  Cardinality(DOMAIN lhs_changes), rows, hunk_starts))
    /\ pc' = "done"
    /\ UNCHANGED << file, old_lines, new_lines, file_stats, lhs_changes, rhs_changes,
                    rows, hunk_starts, in_hunk, row_idx >>
    /\ UNCHANGED hl_vars
    /\ UNCHANGED lib_vars

Next ==
    \/ ProcessCreated
    \/ ProcessDeleted
    \/ ProcessChanged
    \/ ProcessRow
    \/ ProcessChangedReturn

Spec == Init /\ [][Next]_vars

\* --------------------------------------------------------- parse_git_range
\* s[i..] starts with pat (i is 0-based).
starts_with_at(s, pat, i) ==
    /\ i + Len(pat) <= Len(s)
    /\ SubSeq(s, i + 1, i + Len(pat)) = pat

\* str::find from offset i on: the offset of the first match.
RECURSIVE find_from(_, _, _)
find_from(s, pat, i) ==
    IF i + Len(pat) > Len(s) THEN None
    ELSE IF starts_with_at(s, pat, i) THEN Some(i)
    ELSE find_from(s, pat, i + 1)

\* str::split_once: the text before and after the first match.
split_once(s, pat) ==
    LET at == find_from(s, pat, 0)
    IN IF at = None THEN None
       ELSE Some(<< SubSeq(s, 1, at[1]), SubSeq(s, at[1] + Len(pat) + 1, Len(s)) >>)

Dot == 46
Caret == 94

\* Mutation: ".." is tested before "...".
parse_git_range_double_dot_first(r, base) ==
    IF split_once(r, << Dot, Dot >>) # None
    THEN split_once(r, << Dot, Dot >>)[1]
    ELSE IF split_once(r, << Dot, Dot, Dot >>) # None
    THEN LET a == split_once(r, << Dot, Dot, Dot >>)[1][1]
             b == split_once(r, << Dot, Dot, Dot >>)[1][2]
         IN << IF base # None THEN base[1] ELSE Append(a, Caret), b >>
    ELSE << Append(r, Caret), r >>

\* parse_git_range, with base the outcome of git_merge_base(a, b).
parse_git_range(r, base) ==
    IF split_once(r, << Dot, Dot, Dot >>) # None
    THEN LET a == split_once(r, << Dot, Dot, Dot >>)[1][1]
             b == split_once(r, << Dot, Dot, Dot >>)[1][2]
         IN << IF base # None THEN base[1] ELSE Append(a, Caret), b >>
    ELSE IF split_once(r, << Dot, Dot >>) # None
    THEN split_once(r, << Dot, Dot >>)[1]
    ELSE << Append(r, Caret), r >>

\* Ranges over 'a', 'b' and '.'; the merge-base command fails or prints "m".
MaxRange == 5
RangeChars == {97, 98, Dot}
Ranges == SeqsUpTo(RangeChars, MaxRange)
MergeBases == {None, Some(<< 109 >>)}

InitRange ==
    /\ FileIdle
    /\ HLIdle
    /\ ParseIdle
    /\ RunIdle
    /\ range \in Ranges
    /\ merge_base \in MergeBases
    /\ refs = None

\* if let Some((a, b)) = range.split_once("...")
RangeTripleDot ==
    /\ refs = None
    /\ split_once(range, << Dot, Dot, Dot >>) # None
    /\ refs' = Some(parse_git_range(range, merge_base))
    /\ UNCHANGED << range, merge_base >>
    /\ UNCHANGED << file_vars, hl_vars, parse_vars, run_vars >>

\* else if let Some((old, new)) = range.split_once("..")
RangeDoubleDot ==
    /\ refs = None
    /\ split_once(range, << Dot, Dot, Dot >>) = None
    /\ split_once(range, << Dot, Dot >>) # None
    /\ refs' = Some(parse_git_range(range, merge_base))
    /\ UNCHANGED << range, merge_base >>
    /\ UNCHANGED << file_vars, hl_vars, parse_vars, run_vars >>

\* else: a single commit
RangeSingle ==
    /\ refs = None
    /\ split_once(range, << Dot, Dot >>) = None
    /\ refs' = Some(parse_git_range(range, merge_base))
    /\ UNCHANGED << range, merge_base >>
    /\ UNCHANGED << file_vars, hl_vars, parse_vars, run_vars >>

NextRange ==
    \/ RangeTripleDot
    \/ RangeDoubleDot
    \/ RangeSingle

SpecRange == InitRange /\ [][NextRange]_vars

\* ------------------------------------------------------------------- parse
\* A JSON text is a sequence of tokens: the punctuation of an array, the
\* whitespace " " and "\n", and object tokens.  An object token stands for
\* the text of one JSON object on one line; JsonObjects gives the fields it
\* holds (None: the key is missing).
Ok(x) == [ok |-> x]
Err(e) == [err |-> e]
is_ok(r) == "ok" \in DOMAIN r

JsonObjects ==
    [name \in {"A", "B", "C", "X"} |->
        CASE name = "A" ->
                [path |-> Some("a.rs"), language |-> Some("Rust"), status |-> Some("changed"),
                 aligned_lines |-> Some(<< << Some(0), Some(0) >>, << Some(1), None >> >>),
                 chunks |-> Some(<< << DiffLine(Some(diff_side(0, << change(0, 1) >>)),
                                                Some(diff_side(0, << change(2, 3) >>))) >> >>)]
          [] name = "B" ->
                [path |-> Some("b.rs"), language |-> Some("Rust"), status |-> Some("created"),
                 aligned_lines |-> None, chunks |-> Some(<< >>)]
          [] name = "C" ->
                [path |-> Some("c.rs"), language |-> Some("Rust"), status |-> Some("deleted"),
                 aligned_lines |-> None, chunks |-> None]
          [] name = "X" ->
                [path |-> Some("x.rs"), language |-> Some("Rust"), status |-> None,
                 aligned_lines |-> None, chunks |-> Some(<< >>)]]

\* The derived Deserialize of DifftFile: path, language and status are
\* required, aligned_lines and chunks are #[serde(default)].
deserialize(obj) ==
    IF obj.path = None \/ obj.language = None \/ obj.status = None
    THEN Err("missing field")
    ELSE Ok([path |-> obj.path[1], language |-> obj.language[1], status |-> obj.status[1],
             aligned_lines |-> IF obj.aligned_lines = None THEN << >> ELSE obj.aligned_lines[1],
             chunks |-> IF obj.chunks = None THEN << >> ELSE obj.chunks[1]])

is_json_whitespace(t) == t \in {" ", "\n"}

\* The position (1-based) of the first token at or after i that is not
\* whitespace; Len(text) + 1 when there is none.
RECURSIVE skip_whitespace(_, _)
skip_whitespace(text, i) ==
    IF i <= Len(text) /\ is_json_whitespace(text[i]) THEN skip_whitespace(text, i + 1) ELSE i

\* serde_json::from_str::<DifftFile>: one object, whitespace around it.
from_str_file(text) ==
    LET i == skip_whitespace(text, 1)
    IN IF i > Len(text) THEN Err("EOF while parsing a value")
       ELSE IF text[i] \notin DOMAIN JsonObjects THEN Err("invalid type")
       ELSE IF ~is_ok(deserialize(JsonObjects[text[i]])) THEN deserialize(JsonObjects[text[i]])
       ELSE IF skip_whitespace(text, i + 1) <= Len(text) THEN Err("trailing characters")
       ELSE deserialize(JsonObjects[text[i]])

\* The end of a JSON document: only whitespace may follow.
json_end(text, i, acc) ==
    IF skip_whitespace(text, i) <= Len(text) THEN Err("trailing characters") ELSE Ok(acc)

\* The elements of a JSON array from position i on, where a value is due.
RECURSIVE json_elements(_, _, _)
json_elements(text, i, acc) ==
    IF i > Len(text) THEN Err("EOF while parsing a list")
    ELSE IF text[i] \notin DOMAIN JsonObjects THEN Err("expected value")
    ELSE IF ~is_ok(deserialize(JsonObjects[text[i]])) THEN deserialize(JsonObjects[text[i]])
    ELSE LET k == skip_whitespace(text, i + 1)
             elems == Append(acc, deserialize(JsonObjects[text[i]]).ok)
         IN IF k > Len(text) THEN Err("EOF while parsing a list")
            ELSE IF text[k] = "," THEN json_elements(text, skip_whitespace(text, k + 1), elems)
            ELSE IF text[k] = "]" THEN json_end(text, k + 1, elems)
            ELSE Err("expected a comma or the end of the list")

\* serde_json::from_str::<Vec<DifftFile>>
from_str_vec(text) ==
    LET i == skip_whitespace(text, 1)
    IN IF i > Len(text) THEN Err("EOF while parsing a value")
       ELSE IF text[i] # "[" THEN Err("invalid type")
       ELSE LET j == skip_whitespace(text, i + 1)
            IN IF j <= Len(text) /\ text[j] = "]" THEN json_end(text, j + 1, << >>)
               ELSE json_elements(text, j, << >>)

\* str::split_inclusive(lf)
RECURSIVE split_inclusive(_, _)
split_inclusive(s, lf) ==
    IF s = << >> THEN << >>
    ELSE LET at == find_from(s, << lf >>, 0)
         IN IF at = None THEN << s >>
            ELSE << SubSeq(s, 1, at[1] + 1) >> \o split_inclusive(SubSeq(s, at[1] + 2, Len(s)), lf)

\* str::strip_suffix(c)
strip_suffix(s, c) ==
    IF s # << >> /\ s[Len(s)] = c THEN Some(SubSeq(s, 1, Len(s) - 1)) ELSE None

\* Mutation: str::split(lf), which keeps the empty piece after a final lf.
str_lines_split(s, lf, cr) ==
    IF s # << >> /\ s[Len(s)] = lf
    THEN [k \in 1..(Len(split_inclusive(s, lf)) + 1) |->
             IF k <= Len(split_inclusive(s, lf))
             THEN SubSeq(split_inclusive(s, lf)[k], 1, Len(split_inclusive(s, lf)[k]) - 1)
             ELSE << >>]
    ELSE [k \in 1..Len(split_inclusive(s, lf)) |->
             IF strip_suffix(split_inclusive(s, lf)[k], lf) = None
             THEN split_inclusive(s, lf)[k]
             ELSE strip_suffix(split_inclusive(s, lf)[k], lf)[1]]

\* str::lines: the pieces of split_inclusive('\n'), each without its
\* "\n" and without a "\r" before that "\n".
str_lines(s, lf, cr) ==
    [k \in 1..Len(split_inclusive(s, lf)) |->
        LET piece == split_inclusive(s, lf)[k]
        IN IF strip_suffix(piece, lf) = None THEN piece
           ELSE IF strip_suffix(strip_suffix(piece, lf)[1], cr) = None
           THEN strip_suffix(piece, lf)[1]
           ELSE strip_suffix(strip_suffix(piece, lf)[1], cr)[1]]

\* line.trim().is_empty()
is_blank(line) == \A k \in 1..Len(line) : line[k] \in {" ", "\n", "\r"}

\* Iterator::collect into Result<Vec<_>, _>: the first error, or all values.
RECURSIVE collect(_)
collect(results) ==
    IF results = << >> THEN Ok(<< >>)
    ELSE IF ~is_ok(Head(results)) THEN Head(results)
    ELSE IF ~is_ok(collect(Tail(results))) THEN collect(Tail(results))
    ELSE Ok(<< Head(results).ok >> \o collect(Tail(results)).ok)

\* The fallback of parse: one object per non-blank line.
parse_lines(text) ==
    LET ls == SelectSeq(str_lines(text, "\n", "\r"), LAMBDA l : ~is_blank(l))
    IN collect([k \in 1..Len(ls) |-> from_str_file(ls[k])])

\* Mutation: the array format is not tried.
parse_lines_only(text) == parse_lines(text)

parse(text) == IF is_ok(from_str_vec(text)) THEN from_str_vec(text) ELSE parse_lines(text)

MaxText == 4
JsonTokens == {"[", "]", ",", " ", "\n", "A", "B", "X"}
JsonTexts == SeqsUpTo(JsonTokens, MaxText)

InitParse ==
    /\ FileIdle
    /\ HLIdle
    /\ RangeIdle
    /\ RunIdle
    /\ json \in JsonTexts
    /\ parsed = None

\* if let Ok(files) = serde_json::from_str::<Vec<DifftFile>>(json) { return Ok(files); }
ParseArray ==
    /\ parsed = None
    /\ is_ok(from_str_vec(json))
    /\ parsed' = Some(parse(json))
    /\ UNCHANGED json
    /\ UNCHANGED << file_vars, hl_vars, range_vars, run_vars >>

\* json.lines().filter(..).map(serde_json::from_str).collect()
ParseLines ==
    /\ parsed = None
    /\ ~is_ok(from_str_vec(json))
    /\ parsed' = Some(parse(json))
    /\ UNCHANGED json
    /\ UNCHANGED << file_vars, hl_vars, range_vars, run_vars >>

NextParse ==
    \/ ParseArray
    \/ ParseLines

SpecParse == InitParse /\ [][NextParse]_vars

\* ----------------------------------------------------------- run_diff_impl
\* content.map(|c| c.lines().map(String::from).collect()).unwrap_or_default()
into_lines(c) == IF c = None THEN << >> ELSE str_lines(c[1], 10, 13)

\* process_changed's loop as a function: every <<rows, hunk_starts, in_hunk>>
\* the iterations from idx on can end with.
RECURSIVE process_rows(_, _, _, _, _, _)
process_rows(f, old, new, maps, idx, acc) ==
    IF idx = Len(f.aligned_lines) THEN {acc}
    ELSE LET lhs_ln == f.aligned_lines[idx + 1][1]
             rhs_ln == f.aligned_lines[idx + 1][2]
             left_content == line_content(lhs_ln, old)
             right_content == line_content(rhs_ln, new)
         IN UNION {process_rows(f, old, new, maps, idx + 1,
                       << Append(acc[1], changed_row(lhs_ln, rhs_ln, left_content, right_content,
                                                     left_highlights, right_highlights)),
                          track_hunk(acc[2], acc[3], idx,
                              is_changed(lhs_ln, rhs_ln, left_highlights, right_highlights))[1],
                          track_hunk(acc[2], acc[3], idx,
                              is_changed(lhs_ln, rhs_ln, left_highlights, right_highlights))[2] >>) :
                     left_highlights \in side_highlights(lhs_ln, maps[1], left_content),
                     right_highlights \in side_highlights(rhs_ln, maps[2], right_content)}

process_changed(f, old, new) ==
    {DisplayFile(f, Cardinality(DOMAIN extract_changes(f.chunks)[2]),
                 Cardinality(DOMAIN extract_changes(f.chunks)[1]), r[1], r[2]) :
        r \in process_rows(f, old, new, extract_changes(f.chunks), 0, << << >>, << >>, FALSE >>)}

process_created(f, new) ==
    DisplayFile(f, Len(created_rows(new)), 0, created_rows(new), whole_file_hunk(created_rows(new)))

process_deleted(f, old) ==
    DisplayFile(f, 0, Len(deleted_rows(old)), deleted_rows(old), whole_file_hunk(deleted_rows(old)))

\* The results process_file can return (more than one only where the
\* unstable sort leaves the order of the regions open).
process_file(f, old, new) ==
    IF f.status = "created" THEN {process_created(f, new)}
    ELSE IF f.status = "deleted" THEN {process_deleted(f, old)}
    ELSE process_changed(f, old, new)

\* Mutation: the exit status is not looked at.
run_git_diff_ignore_status(output) ==
    IF ~output.spawned THEN Err(<< "Failed", "to", "run", "git", output.error >>)
    ELSE IF ~is_ok(parse(output.stdout))
    THEN Err(<< "Failed", "to", "parse", "difftastic", "JSON", parse(output.stdout).err >>)
    ELSE parse(output.stdout)

\* run_git_diff on the outcome of Command::output(); a message is the
\* sequence of its words.
run_git_diff(output) ==
    IF ~output.spawned THEN Err(<< "Failed", "to", "run", "git", output.error >>)
    ELSE IF ~output.success THEN Err(<< "git", "command", "failed", output.stderr >>)
    ELSE IF ~is_ok(parse(output.stdout))
    THEN Err(<< "Failed", "to", "parse", "difftastic", "JSON", parse(output.stdout).err >>)
    ELSE parse(output.stdout)

\* run_jj_diff
run_jj_diff(output) ==
    IF ~output.spawned THEN Err(<< "Failed", "to", "run", "jj", output.error >>)
    ELSE IF ~output.success THEN Err(<< "jj", "command", "failed", output.stderr >>)
    ELSE IF ~is_ok(parse(output.stdout))
    THEN Err(<< "Failed", "to", "parse", "difftastic", "JSON", parse(output.stdout).err >>)
    ELSE parse(output.stdout)

\* The first match of run_diff_impl: the diff command of the VCS.
run_diff(v, output) == IF v = "git" THEN run_git_diff(output) ELSE run_jj_diff(output)

\* git_diff_stats' filter_map and collect over the lines of --numstat; a
\* line is its three fields, add and del None when they are not numbers.
RECURSIVE numstat(_, _)
numstat(map, stat_lines) ==
    IF stat_lines = << >> THEN map
    ELSE IF Head(stat_lines).add = None \/ Head(stat_lines).del = None
    THEN numstat(map, Tail(stat_lines))
    ELSE numstat(insert(map, Head(stat_lines).path,
                        << Head(stat_lines).add[1], Head(stat_lines).del[1] >>),
                 Tail(stat_lines))

\* git_diff_stats on the outcome of the command: None when it could not be
\* run or failed, else the lines it printed.
git_diff_stats(output) == IF output = None THEN << >> ELSE numstat(<< >>, output[1])

\* stats.get(&file.path).copied()
stats_get(map, key) == IF key \in DOMAIN map THEN Some(map[key]) ELSE None

\* ------------------------------------------------ inputs of run_diff_impl
Vcs == {"git", "jj"}

command_output(spawned, success, stdout, stderr, error) ==
    [spawned |-> spawned, success |-> success, stdout |-> stdout, stderr |-> stderr, error |-> error]

\* The diff command cannot be started; exits with a failure (having
\* printed a file); prints three files, one per line; prints an array of
\* two files; prints nothing; prints an object without status.
DiffOutputs ==
    {command_output(FALSE, FALSE, << >>, "", "No such file or directory"),
     command_output(TRUE, FALSE, << "B" >>, "fatal: bad revision", ""),
     command_output(TRUE, TRUE, << "A", "\n", "B", "\n", "C", "\n" >>, "", ""),
     command_output(TRUE, TRUE, << "[", "C", ",", "A", "]" >>, "", ""),
     command_output(TRUE, TRUE, << >>, "", ""),
     command_output(TRUE, TRUE, << "A", "\n", "X" >>, "", "")}

\* The statistics command fails, or prints a line for a.rs and a line of a
\* binary file ("-\t-\tb.rs").
StatsOutputs ==
    {None,
     Some(<< [add |-> Some(3), del |-> Some(2), path |-> "a.rs"],
             [add |-> None, del |-> None, path |-> "b.rs"] >>)}

Paths == {"a.rs", "b.rs", "c.rs"}

\* A revision's content: not available, or "a a\na".
RunContents == {None, Some(<< 97, 32, 97, 10, 97 >>)}

InitRun ==
    /\ FileIdle
    /\ HLIdle
    /\ RangeIdle
    /\ ParseIdle
    /\ run_pc = "start"
    /\ vcs \in Vcs
    /\ diff_output \in DiffOutputs
    /\ stats_output \in StatsOutputs
    /\ repo \in [Paths -> [old : RunContents, new : RunContents]]
    /\ files = << >>
    /\ stats = << >>
    /\ workers = << >>
    /\ display_files = << >>
    /\ finished = << >>
    /\ lua_result = None

\* The closure of the parallel map before its first statement.
new_worker == [pc |-> "fetch_old", file_stats |-> None, old_lines |-> << >>, new_lines |-> << >>]

\* let files = run_git_diff(..).map_err(LuaError::RuntimeError)?, the error case.
RunDiffFails ==
    /\ run_pc = "start"
    /\ ~is_ok(run_diff(vcs, diff_output))
    /\ lua_result' = Some(run_diff(vcs, diff_output))
    /\ run_pc' = "error"
    /\ UNCHANGED << vcs, diff_output, stats_output, repo, files, stats,
                    workers, display_files, finished >>
    /\ UNCHANGED << file_vars, hl_vars, range_vars, parse_vars >>

\* (files, stats) is there: the parallel map starts, one closure per file.
RunDiffReturns ==
    /\ run_pc = "start"
    /\ is_ok(run_diff(vcs, diff_output))
    /\ files' = run_diff(vcs, diff_output).ok
    /\ stats' = git_diff_stats(stats_output)
    /\ workers' = [i \in 1..Len(files') |-> new_worker]
    /\ display_files' = [i \in 1..Len(files') |-> None]
    /\ run_pc' = "map"
    /\ UNCHANGED << vcs, diff_output, stats_output, repo, finished, lua_result >>
    /\ UNCHANGED << file_vars, hl_vars, range_vars, parse_vars >>

\* let file_stats = stats.get(&file.path).copied();
\* let old_lines = into_lines(git_file_content(&old_ref, &file.path));
WorkerFetchOld(i) ==
    /\ run_pc = "map"
    /\ workers[i].pc = "fetch_old"
    /\ workers' = [workers EXCEPT ![i] =
                      [pc |-> "fetch_new",
                       file_stats |-> stats_get(stats, files[i].path),
                       old_lines |-> into_lines(repo[files[i].path].old),
                       new_lines |-> << >>]]
    /\ UNCHANGED << run_pc, vcs, diff_output, stats_output, repo, files, stats,
                    display_files, finished, lua_result >>
    /\ UNCHANGED << file_vars, hl_vars, range_vars, parse_vars >>

\* let new_lines = into_lines(git_file_content(&new_ref, &file.path));
WorkerFetchNew(i) ==
    /\ run_pc = "map"
    /\ workers[i].pc = "fetch_new"
    /\ workers' = [workers EXCEPT ![i].pc = "process",
                                  ![i].new_lines = into_lines(repo[files[i].path].new)]
    /\ UNCHANGED << run_pc, vcs, diff_output, stats_output, repo, files, stats,
                    display_files, finished, lua_result >>
    /\ UNCHANGED << file_vars, hl_vars, range_vars, parse_vars >>

\* Mutation: the results are pushed in the order the closures return.
WorkerProcess_completion_order(i) ==
    /\ run_pc = "map"
    /\ workers[i].pc = "process"
    /\ \E d \in process_file(files[i], workers[i].old_lines, workers[i].new_lines) :
          display_files' = [display_files EXCEPT ![Len(finished) + 1] = Some(d)]
    /\ finished' = Append(finished, i)
    /\ workers' = [workers EXCEPT ![i].pc = "done"]
    /\ UNCHANGED << run_pc, vcs, diff_output, stats_output, repo, files, stats, lua_result >>
    /\ UNCHANGED << file_vars, hl_vars, range_vars, parse_vars >>

\* processor::process_file(file, old_lines, new_lines, file_stats); the
\* indexed collect puts the closure's result at the file's own position.
WorkerProcess(i) ==
    /\ run_pc = "map"
    /\ workers[i].pc = "process"
    /\ \E d \in process_file(files[i], workers[i].old_lines, workers[i].new_lines) :
          display_files' = [display_files EXCEPT ![i] = Some(d)]
    /\ finished' = Append(finished, i)
    /\ workers' = [workers EXCEPT ![i].pc = "done"]
    /\ UNCHANGED << run_pc, vcs, diff_output, stats_output, repo, files, stats, lua_result >>
    /\ UNCHANGED << file_vars, hl_vars, range_vars, parse_vars >>

\* The map is over: files_table.set(i + 1, file) for each display file, and
\* run_diff_impl returns the table { files = files_table }.
Collect ==
    /\ run_pc = "map"
    /\ \A i \in 1..Len(workers) : workers[i].pc = "done"
    /\ lua_result' = Some(Ok([files |-> [i \in 1..Len(display_files) |-> display_files[i][1]]]))
    /\ run_pc' = "done"
    /\ UNCHANGED << vcs, diff_output, stats_output, repo, files, stats,
                    workers, display_files, finished >>
    /\ UNCHANGED << file_vars, hl_vars, range_vars, parse_vars >>

NextRun ==
    \/ RunDiffFails
    \/ RunDiffReturns
    \/ \E i \in 1..Len(workers) : WorkerFetchOld(i)
    \/ \E i \in 1..Len(workers) : WorkerFetchNew(i)
    \/ \E i \in 1..Len(workers) : WorkerProcess(i)
    \/ Collect

SpecRun == InitRun /\ [][NextRun]_vars

\* ------------------------------------- the map's closure on one file
\* Contents over 'a', "\n" and "\r".
MaxContent == 3
ContentChars == {97, 10, 13}
Contents == {None} \cup {Some(c) : c \in SeqsUpTo(ContentChars, MaxContent)}

\* run_diff_impl at the start of the parallel map, the diff command having
\* printed one file and the statistics command having failed.
InitWorker ==
    /\ FileIdle
    /\ HLIdle
    /\ RangeIdle
    /\ ParseIdle
    /\ run_pc = "map"
    /\ vcs = "git"
    /\ \E t \in {"A", "B", "C"} :
          /\ diff_output = command_output(TRUE, TRUE, << t >>, "", "")
          /\ files = run_diff(vcs, diff_output).ok
    /\ stats_output = None
    /\ stats = git_diff_stats(stats_output)
    /\ \E o \in Contents, n \in Contents :
          repo = [p \in Paths |-> IF p = files[1].path THEN [old |-> o, new |-> n]
                                  ELSE [old |-> None, new |-> None]]
    /\ workers = [i \in 1..Len(files) |-> new_worker]
    /\ display_files = [i \in 1..Len(files) |-> None]
    /\ finished = << >>
    /\ lua_result = None

NextWorker ==
    \/ \E i \in 1..Len(workers) : WorkerFetchOld(i)
    \/ \E i \in 1..Len(workers) : WorkerFetchNew(i)
    \/ \E i \in 1..Len(workers) : WorkerProcess(i)
    \/ Collect

SpecWorker == InitWorker /\ [][NextWorker]_vars

\* ======================================================== properties
Returned == result # None
Display == result[1]

\* C1: the number of output rows is fixed by the status: the length of
\* aligned_lines for Changed, of new_lines for Created, of old_lines for
\* Deleted.
C1_RowCount ==
    Returned =>
        /\ file.status = "changed" => Len(Display.rows) = Len(file.aligned_lines)
        /\ file.status = "created" => Len(Display.rows) = Len(new_lines)
        /\ file.status = "deleted" => Len(Display.rows) = Len(old_lines)

C1_Witness ==
    /\ Returned
    /\ file.status = "changed"
    /\ Len(Display.rows) = 3
    /\ Len(old_lines) = 2
    /\ Len(new_lines) = 0

\* Row i (1-based) of a Changed file is changed: a line number of its
\* alignment entry is absent or a side of the output row has highlights.
RowChanged(i) ==
    \/ file.aligned_lines[i][1] = None
    \/ file.aligned_lines[i][2] = None
    \/ Display.rows[i].left.highlights # << >>
    \/ Display.rows[i].right.highlights # << >>

\* The 0-based indices of the rows that open a maximal run of changed rows.
RunStarts ==
    {i - 1 : i \in {j \in 1..Len(Display.rows) : RowChanged(j) /\ (j = 1 \/ ~RowChanged(j - 1))}}

StrictlyIncreasing(s) == \A j, k \in 1..Len(s) : j < k => s[j] < s[k]

\* C2: in a Changed file hunk_starts holds exactly the indices of the
\* changed rows whose predecessor is not changed (or that are row 0), each
\* once and in row order.
C2_HunkStartsExact ==
    (Returned /\ file.status = "changed") =>
        /\ {Display.hunk_starts[k] : k \in 1..Len(Display.hunk_starts)} = RunStarts
        /\ StrictlyIncreasing(Display.hunk_starts)

\* Two runs, the first of them two changed rows long: <<changed, changed,
\* unchanged>> gives [0] and <<changed, unchanged, changed>> gives [0, 2].
C2_Witness ==
    /\ Returned
    /\ file.status = "changed"
    /\ Len(Display.rows) = 3
    /\ RowChanged(1) /\ ~RowChanged(2) /\ RowChanged(3)
    /\ Display.hunk_starts = << 0, 2 >>

AllUnchanged ==
    \A i \in 1..Len(file.aligned_lines) :
        /\ file.aligned_lines[i][1] # None
        /\ file.aligned_lines[i][2] # None
        /\ Display.rows[i].left.highlights = << >>
        /\ Display.rows[i].right.highlights = << >>

\* C3: for every status hunk_starts is strictly increasing and each value
\* is an index into rows; a Changed file none of whose rows is changed has
\* no hunk start.
C3_HunkStartsValid ==
    Returned =>
        /\ StrictlyIncreasing(Display.hunk_starts)
        /\ \A k \in 1..Len(Display.hunk_starts) :
              Display.hunk_starts[k] >= 0 /\ Display.hunk_starts[k] < Len(Display.rows)
        /\ (file.status = "changed" /\ AllUnchanged) => Display.hunk_starts = << >>

C3_Witness ==
    /\ Returned
    /\ file.status = "changed"
    /\ Len(Display.rows) = 3
    /\ AllUnchanged
    /\ lhs_changes # << >>

BothFiller(row) == row.left.is_filler /\ row.right.is_filler

\* C4 as stated: no row has both sides filler, whatever the alignment plan.
C4_NeverBothFiller ==
    Returned => \A i \in 1..Len(Display.rows) : ~BothFiller(Display.rows[i])

\* C4, amended: a row has both sides filler exactly when it is a row of a
\* Changed file whose alignment entry has both line numbers absent.
C4_BothFillerOnlyFromPlan ==
    Returned =>
        \A i \in 1..Len(Display.rows) :
            BothFiller(Display.rows[i]) <=>
                (file.status = "changed" /\ file.aligned_lines[i] = << None, None >>)

C4_Witness ==
    /\ Returned
    /\ file.status = "changed"
    /\ Len(Display.rows) = 3
    /\ BothFiller(Display.rows[2])
    /\ ~BothFiller(Display.rows[1])
    /\ Display.rows[1].left.is_filler
    /\ Display.rows[3].left.content = << >> /\ ~Display.rows[3].left.is_filler

\* The content the claim gives a side: the line at the side's line number
\* when present and inside the line array, else the empty string.
ExpectedContent(ln, lines) ==
    IF ln = None THEN << >>
    ELSE IF ln[1] + 1 \in DOMAIN lines THEN lines[ln[1] + 1]
    ELSE << >>

\* C5: row i of a Changed file is built from alignment entry i: content
\* from that entry's line numbers, is_filler exactly for an absent line
\* number, one row per entry in plan order.
C5_RowFromEntry ==
    (pc \in {"rows", "done"} /\ file.status = "changed") =>
        /\ Len(rows) = row_idx
        /\ Returned => Display.rows = rows /\ Len(rows) = Len(file.aligned_lines)
        /\ \A i \in 1..Len(rows) :
              /\ rows[i].left.content = ExpectedContent(file.aligned_lines[i][1], old_lines)
              /\ rows[i].right.content = ExpectedContent(file.aligned_lines[i][2], new_lines)
              /\ rows[i].left.is_filler <=> file.aligned_lines[i][1] = None
              /\ rows[i].right.is_filler <=> file.aligned_lines[i][2] = None

\* A present line number past the end of old_lines: empty, not a filler.
C5_Witness ==
    /\ Returned
    /\ file.status = "changed"
    /\ Len(Display.rows) = 3
    /\ file.aligned_lines[2] = << Some(1), Some(0) >>
    /\ old_lines = << >>
    /\ Display.rows[2].left.content = << >>
    /\ ~Display.rows[2].left.is_filler
    /\ Display.rows[2].right.content = << 97, 32, 97 >>
    /\ file.aligned_lines[1] # file.aligned_lines[3]

\* ------------------------------------------- compute_highlights (SpecHL)
Computed == hl_pc = "done"
Highlights == highlights[1]
LineBytes == as_bytes(content)

\* C6: one change with start 0 and end at or past the line's byte length
\* gives exactly the full-line sentinel, for every line.
C6_FullSpanIsSentinel ==
    (Computed /\ Len(changes) = 1 /\ changes[1].start = 0
              /\ changes[1].end >= Len(LineBytes)) =>
        Highlights = << [start |-> 0, end |-> -1] >>

\* The empty line with the change (0, 1).
C6_Witness ==
    /\ Computed
    /\ content = << >>
    /\ changes = << [start |-> 0, end |-> 1] >>
    /\ Highlights = << [start |-> 0, end |-> -1] >>

\* The region the merge pass takes next and the running region.
Incoming == regions[next_region + 1]
Running == merged[Len(merged)]

MergedIntoRunning ==
    merged' = [merged EXCEPT ![Len(merged)] = << Running[1], Max(Running[2], Incoming[2]) >>]

OpensNewRegion == merged' = Append(merged, Incoming)

MergePassStep == hl_pc = "merge" /\ next_region' = next_region + 1 /\ merged # << >>

\* Every byte of the line at an offset in [from, to) is ASCII whitespace.
LineBytesInGapAreWhitespace(from, to) ==
    \A off \in from..(to - 1) :
        off + 1 \in DOMAIN LineBytes => is_ascii_whitespace(LineBytes[off + 1])

\* C7 as stated: a change is merged into the running region iff its start
\* is at or before the running end or every byte of the line in the gap
\* is ASCII whitespace; otherwise it opens a new region.
C7_MergeIffGapWhitespace ==
    [][MergePassStep =>
        /\ MergedIntoRunning <=>
              (Incoming[1] <= Running[2]
                 \/ LineBytesInGapAreWhitespace(Running[2], Incoming[1]))
        /\ MergedIntoRunning \/ OpensNewRegion]_vars

\* C7, amended: a change is merged iff its start is at or before the
\* running end, or the gap ends within the line and every byte in it is
\* ASCII whitespace; otherwise it opens a new region.
C7_MergeIffGapInsideLineWhitespace ==
    [][MergePassStep =>
        /\ MergedIntoRunning <=>
              (Incoming[1] <= Running[2]
                 \/ (Incoming[1] <= Len(LineBytes)
                       /\ LineBytesInGapAreWhitespace(Running[2], Incoming[1])))
        /\ ~MergedIntoRunning <=> OpensNewRegion]_vars

\* "a " with (0,1) and (2,3): the gap is the space, merged into (0,3).
C7_Witness ==
    /\ hl_pc = "merge"
    /\ content = << 97, 32 >>
    /\ regions = << << 0, 1 >>, << 2, 3 >> >>
    /\ next_region = 2
    /\ merged = << << 0, 3 >> >>

\* The byte offset at which character k of the line starts.
CharStart(k) == len(SubSeq(content, 1, k - 1))

NonWhitespaceChars == {k \in 1..Len(content) : ~is_whitespace(content[k])}

InsideSomeMergedRegion(off) ==
    \E r \in 1..Len(merged) : merged[r][1] <= off /\ off < merged[r][2]

SingleFullSpanRule ==
    Len(changes) = 1 /\ changes[1].start = 0 /\ changes[1].end >= Len(LineBytes)

\* C8: when the single-full-span rule does not apply, the result is the
\* full-line sentinel iff the line has a non-whitespace character and
\* every non-whitespace character starts inside a merged region.
C8_CollapseIffCovered ==
    (Computed /\ ~SingleFullSpanRule) =>
        (Highlights = << [start |-> 0, end |-> -1] >>
            <=> (/\ NonWhitespaceChars # {}
                 /\ \A k \in NonWhitespaceChars : InsideSomeMergedRegion(CharStart(k))))

\* Two merged regions remain and the line still collapses.
C8_Witness ==
    /\ Computed
    /\ Len(changes) = 2
    /\ Len(merged) = 2
    /\ Len(content) = 2
    /\ Highlights = << [start |-> 0, end |-> -1] >>

NeitherCollapseRule ==
    /\ Computed
    /\ changes # << >>
    /\ ~SingleFullSpanRule
    /\ Highlights # << [start |-> 0, end |-> -1] >>

\* C9 as stated: when neither collapse rule applies the merged regions are
\* returned unchanged, in merge order, none with end = -1.
C9_RegionsUnchanged ==
    NeitherCollapseRule =>
        /\ Len(Highlights) = Len(merged)
        /\ \A i \in 1..Len(merged) :
              /\ Highlights[i].start = merged[i][1]
              /\ Highlights[i].end = merged[i][2]
              /\ Highlights[i].end # -1

\* C9, amended: an end above i32::MAX is returned as i32::MAX; every other
\* start and end is returned unchanged, in merge order, none with end = -1.
C9_RegionsCapped ==
    NeitherCollapseRule =>
        /\ Len(Highlights) = Len(merged)
        /\ \A i \in 1..Len(merged) :
              /\ Highlights[i].start = merged[i][1]
              /\ merged[i][2] <= I32Max => Highlights[i].end = merged[i][2]
              /\ merged[i][2] > I32Max => Highlights[i].end = I32Max
              /\ Highlights[i].end # -1

C9_Witness ==
    /\ NeitherCollapseRule
    /\ Len(changes) = 2
    /\ Len(Highlights) = 2
    /\ Highlights[1].end = 1
    /\ Highlights[2].end = I32Max
    /\ merged[2][2] > I32Max

RegionOffsets(r) == {off \in 0..U32Max : r[1] <= off /\ off < r[2]}

OrderedAndDisjoint ==
    /\ \A i \in 1..(Len(merged) - 1) : merged[i][1] <= merged[i + 1][1]
    /\ \A i, j \in 1..Len(merged) :
          i # j => RegionOffsets(merged[i]) \cap RegionOffsets(merged[j]) = {}

MergePassOver == hl_pc \in {"merge", "done"} /\ next_region = Len(regions)

\* C10 as stated: the merged regions are ordered by start, pairwise
\* disjoint, and no two consecutive regions are separated by a gap whose
\* bytes of the line are all whitespace.
C10_NoWhitespaceGap ==
    MergePassOver =>
        /\ OrderedAndDisjoint
        /\ \A i \in 1..(Len(merged) - 1) :
              /\ merged[i][2] < merged[i + 1][1]
              /\ ~LineBytesInGapAreWhitespace(merged[i][2], merged[i + 1][1])

\* C10, amended: the merged regions are ordered by start, pairwise
\* disjoint, and two consecutive regions are separated by a non-empty gap
\* that reaches past the end of the line or holds a byte that is not ASCII
\* whitespace.
C10_NoWhitespaceGapInsideLine ==
    MergePassOver =>
        /\ OrderedAndDisjoint
        /\ \A i \in 1..(Len(merged) - 1) :
              /\ merged[i][2] < merged[i + 1][1]
              /\ \/ merged[i + 1][1] > Len(LineBytes)
                 \/ ~LineBytesInGapAreWhitespace(merged[i][2], merged[i + 1][1])

\* U+00E9 'a' with (0,1) and (2,3): the gap is the second byte of U+00E9.
C10_Witness ==
    /\ MergePassOver
    /\ content = << 233, 97 >>
    /\ merged = << << 0, 1 >>, << 2, 3 >> >>

\* ------------------------------------------------- process_file, continued
Sentinel == [start |-> 0, end |-> -1]

\* The sides of every row of the returned DisplayFile.
OutputSides ==
    {Display.rows[i].left : i \in 1..Len(Display.rows)}
        \cup {Display.rows[i].right : i \in 1..Len(Display.rows)}

RegionsOf(side) == {side.highlights[k] : k \in 1..Len(side.highlights)}

\* C11: every highlight region of every output row with end # -1 has
\* end > start, whatever the change lists (start = end and start > end
\* included).
C11_EndAfterStart ==
    Returned =>
        \A side \in OutputSides : \A h \in RegionsOf(side) :
            h.end # -1 => h.end > h.start

\* C12: every highlight region other than the sentinel ends within the
\* bytes of its side's content.
C12_HighlightsInsideContent ==
    Returned =>
        \A side \in OutputSides : \A h \in RegionsOf(side) :
            h # Sentinel => h.end <= Len(as_bytes(side.content))

\* C13: a filler side has empty content and no highlights.
C13_FillerIsEmpty ==
    /\ \A i \in 1..Len(rows) :
          /\ rows[i].left.is_filler =>
                rows[i].left.content = << >> /\ rows[i].left.highlights = << >>
          /\ rows[i].right.is_filler =>
                rows[i].right.content = << >> /\ rows[i].right.highlights = << >>
    /\ Returned =>
          \A side \in OutputSides :
              side.is_filler => side.content = << >> /\ side.highlights = << >>

\* A filler left side although old line 0 exists and has change data.
C13_Witness ==
    /\ Returned
    /\ file.status = "changed"
    /\ Len(Display.rows) = 3
    /\ file.aligned_lines[2] = << None, Some(0) >>
    /\ Display.rows[2].left.is_filler
    /\ Len(old_lines) = 2
    /\ 0 \in DOMAIN lhs_changes
    /\ lhs_changes[0] # << >>

\* The DiffLine entries of all chunks, in chunk order then in-chunk order.
RECURSIVE Flatten(_)
Flatten(chunks) == IF chunks = << >> THEN << >> ELSE Head(chunks) \o Flatten(Tail(chunks))

Entries == Flatten(file.chunks)

OldSides == [i \in 1..Len(Entries) |-> Entries[i].lhs]
NewSides == [i \in 1..Len(Entries) |-> Entries[i].rhs]

\* The line numbers a side's entries name.
NamedLines(sides) ==
    {sides[i][1].line_number : i \in {j \in 1..Len(sides) : sides[j] # None}}

\* The position of the last entry that names line number n.
LastNaming(sides, n) ==
    CHOOSE i \in 1..Len(sides) :
        /\ sides[i] # None /\ sides[i][1].line_number = n
        /\ \A j \in (i + 1)..Len(sides) : sides[j] = None \/ sides[j][1].line_number # n

\* The Change Index of one side: last write wins.
LastWriteIndex(sides) ==
    [n \in NamedLines(sides) |-> sides[LastNaming(sides, n)][1].changes]

\* The highlights the claim leaves empty for a side with line number ln.
NoChangeData(ln, sides) ==
    \/ ln = None
    \/ ln[1] \notin NamedLines(sides)
    \/ LastWriteIndex(sides)[ln[1]] = << >>

\* C14: in a Changed file a side whose line number is absent, has no entry
\* in its Change Index or has an empty change list gets empty highlights,
\* and the file is still returned.
C14_NoChangeDataNoHighlights ==
    (pc \in {"rows", "done"} /\ file.status = "changed") =>
        /\ \A i \in 1..Len(rows) :
              /\ NoChangeData(file.aligned_lines[i][1], OldSides) =>
                    rows[i].left.highlights = << >>
              /\ NoChangeData(file.aligned_lines[i][2], NewSides) =>
                    rows[i].right.highlights = << >>
        /\ (pc = "done") => (Returned /\ Display.rows = rows)

\* Old line 0 has an empty change list, new line 1 has no entry, and the
\* next row is highlighted on the right.
C14_Witness ==
    /\ Returned
    /\ file.status = "changed"
    /\ Len(Display.rows) = 3
    /\ file.aligned_lines[1] = << Some(0), Some(1) >>
    /\ 0 \in NamedLines(OldSides) /\ LastWriteIndex(OldSides)[0] = << >>
    /\ NamedLines(NewSides) = {0}
    /\ Display.rows[1].left.highlights = << >>
    /\ Display.rows[1].right.highlights = << >>
    /\ Display.rows[1].right.content = << 97 >>
    /\ Display.rows[2].right.highlights # << >>

FillerSide == [content |-> << >>, is_filler |-> TRUE, highlights |-> << >>]
FullLineSide(line) == [content |-> line, is_filler |-> FALSE, highlights |-> << Sentinel >>]

\* C15: row i of a Created file is a filler left side and new_lines[i]
\* with the full-line sentinel on the right; a Deleted file is the mirror
\* image over old_lines.
C15_WholeFileRows ==
    Returned =>
        /\ file.status = "created" =>
              /\ DOMAIN Display.rows = DOMAIN new_lines
              /\ \A i \in DOMAIN new_lines :
                    /\ Display.rows[i].left = FillerSide
                    /\ Display.rows[i].right = FullLineSide(new_lines[i])
        /\ file.status = "deleted" =>
              /\ DOMAIN Display.rows = DOMAIN old_lines
              /\ \A i \in DOMAIN old_lines :
                    /\ Display.rows[i].left = FullLineSide(old_lines[i])
                    /\ Display.rows[i].right = FillerSide

C15_Witness ==
    /\ Returned
    /\ file.status = "created"
    /\ Len(Display.rows) = 2
    /\ Display.rows[1].right.content = << 97, 32, 97 >>
    /\ Display.rows[2].right.content = << 97 >>
    /\ old_lines = << >>

\* C16: a Created file has additions = number of new lines and deletions
\* = 0, a Deleted file deletions = number of old lines and additions = 0;
\* hunk_starts is [0] when there is a row and empty otherwise.
C16_WholeFileCounts ==
    Returned =>
        /\ file.status = "created" =>
              Display.additions = Len(new_lines) /\ Display.deletions = 0
        /\ file.status = "deleted" =>
              Display.deletions = Len(old_lines) /\ Display.additions = 0
        /\ file.status \in {"created", "deleted"} =>
              Display.hunk_starts = (IF Len(Display.rows) >= 1 THEN << 0 >> ELSE << >>)

C16_Witness ==
    /\ Returned
    /\ file.status = "deleted"
    /\ Len(old_lines) = 2
    /\ Len(new_lines) = 0
    /\ Display.deletions = 2
    /\ Display.additions = 0
    /\ Display.hunk_starts = << 0 >>

\* C17: a Changed file processed without external statistics reports as
\* additions the number of distinct line numbers with a new-side entry in
\* any chunk and as deletions that of the old side.
C17_CountsDistinctLines ==
    (Returned /\ file.status = "changed" /\ file_stats = None) =>
        /\ Display.additions = Cardinality(NamedLines(NewSides))
        /\ Display.deletions = Cardinality(NamedLines(OldSides))

\* New line 0 is named by two entries and counts once.
C17_Witness ==
    /\ Returned
    /\ file.status = "changed"
    /\ file_stats = None
    /\ Len(Entries) = 3
    /\ Display.additions = 1
    /\ Display.deletions = 2

\* C18: supplied statistics replace the derived counts; without them the
\* derived counts are used.
C18_StatsOverride ==
    Returned =>
        /\ file_stats # None =>
              /\ Display.additions = file_stats[1][1]
              /\ Display.deletions = file_stats[1][2]
        /\ (file_stats = None /\ file.status = "changed") =>
              /\ Display.additions = Cardinality(NamedLines(NewSides))
              /\ Display.deletions = Cardinality(NamedLines(OldSides))

\* What a Created file's result is, from path, language and new lines.
CreatedDisplay(path, language, lines) ==
    [path |-> path, language |-> language, status |-> "created",
     additions |-> Len(lines), deletions |-> 0,
     rows |-> [i \in DOMAIN lines |-> [left |-> FillerSide, right |-> FullLineSide(lines[i])]],
     hunk_starts |-> IF lines = << >> THEN << >> ELSE << 0 >>]

\* What a Deleted file's result is, from path, language and old lines.
DeletedDisplay(path, language, lines) ==
    [path |-> path, language |-> language, status |-> "deleted",
     additions |-> 0, deletions |-> Len(lines),
     rows |-> [i \in DOMAIN lines |-> [left |-> FullLineSide(lines[i]), right |-> FillerSide]],
     hunk_starts |-> IF lines = << >> THEN << >> ELSE << 0 >>]

\* C19: the handler follows the status alone: a Created file's result is
\* a function of path, language and new_lines, a Deleted file's of path,
\* language and old_lines (not of aligned_lines, chunks or the other
\* side's lines), and the output status is the input status.
C19_StatusAloneDecides ==
    Returned =>
        /\ Display.status = file.status
        /\ file.status = "created" =>
              Display = CreatedDisplay(file.path, file.language, new_lines)
        /\ file.status = "deleted" =>
              Display = DeletedDisplay(file.path, file.language, old_lines)

\* A Created file that carries an alignment plan, chunks and old lines.
C19_Witness ==
    /\ Returned
    /\ file.status = "created"
    /\ Len(file.aligned_lines) = 3
    /\ Len(file.chunks) = 2
    /\ Len(old_lines) = 2
    /\ Len(new_lines) = 2
    /\ Len(Display.rows) = 2

\* C20: extract_changes maps, per side, each named line number to the
\* change list of the last entry naming it (chunk order, then in-chunk
\* order); the sides are independent and no chunks give two empty maps.
C20_LastWriteWins ==
    (pc \in {"rows", "done"} /\ file.status = "changed") =>
        /\ lhs_changes = LastWriteIndex(OldSides)
        /\ rhs_changes = LastWriteIndex(NewSides)
        /\ file.chunks = << >> => (DOMAIN lhs_changes = {} /\ DOMAIN rhs_changes = {})

\* Old line 0 is named in both chunks; the second chunk's list is kept.
C20_Witness ==
    /\ pc = "rows"
    /\ file.status = "changed"
    /\ Len(file.chunks) = 2
    /\ file.chunks[1][1].lhs[1].line_number = 0
    /\ file.chunks[2][1].lhs[1].line_number = 0
    /\ file.chunks[1][1].lhs[1].changes # file.chunks[2][1].lhs[1].changes
    /\ lhs_changes[0] = file.chunks[2][1].lhs[1].changes
    /\ DOMAIN rhs_changes = {1}

\* ------------------------------------------------ process_file, robustness
\* The fields of a DisplayFile and of the sides of its rows.
IsDisplayFile(d) ==
    /\ DOMAIN d = {"path", "language", "status", "additions", "deletions", "rows", "hunk_starts"}
    /\ d.additions \in Nat
    /\ d.deletions \in Nat
    /\ \A i \in 1..Len(d.rows) :
          /\ DOMAIN d.rows[i] = {"left", "right"}
          /\ DOMAIN d.rows[i].left = {"content", "is_filler", "highlights"}
          /\ DOMAIN d.rows[i].right = {"content", "is_filler", "highlights"}

\* C21: process_file never fails: from every state before the return a
\* step of process_file can be taken, the row loop never runs past the
\* alignment plan, and the call ends with a DisplayFile, whatever the line
\* numbers and ranges of the input.
C21_NeverFails ==
    /\ pc \in {"start", "rows", "done"}
    /\ pc # "done" => ENABLED Next
    /\ pc = "rows" => row_idx <= Len(file.aligned_lines) /\ Len(rows) = row_idx
    /\ pc = "done" <=> Returned
    /\ Returned => IsDisplayFile(Display)

\* No line on either side, an alignment entry and a change index naming
\* line 1, and the inverted range (3, 1) past the (empty) line.
C21_Witness ==
    /\ Returned
    /\ file.status = "changed"
    /\ old_lines = << >>
    /\ new_lines = << >>
    /\ file.aligned_lines = << << Some(0), Some(1) >> >>
    /\ 1 \in DOMAIN rhs_changes
    /\ rhs_changes[1] = << [start |-> 3, end |-> 1] >>
    /\ Display.rows[1].right.content = << >>
    /\ Display.rows[1].right.highlights = << [start |-> 3, end |-> 1] >>

\* Row i lies in a hunk: a recorded hunk start at or before it, and every
\* row from that start to row i is changed.
InsideHunk(i) ==
    \E k \in 1..Len(Display.hunk_starts) :
        /\ Display.hunk_starts[k] + 1 <= i
        /\ \A j \in (Display.hunk_starts[k] + 1)..i : RowChanged(j)

\* The side with line number ln has a non-empty change list.
HasChangeData(ln, sides) ==
    /\ ln # None
    /\ ln[1] \in NamedLines(sides)
    /\ LastWriteIndex(sides)[ln[1]] # << >>

\* C27: in a Changed file a row with both line numbers present and no
\* change data on either side has empty highlights on both sides and
\* starts no hunk; a row with both line numbers present and a non-empty
\* change list on both sides has non-empty highlights on both sides and
\* lies inside a hunk.
C27_AlignedModification ==
    (Returned /\ file.status = "changed") =>
        \A i \in 1..Len(Display.rows) :
            LET lhs_ln == file.aligned_lines[i][1]
                rhs_ln == file.aligned_lines[i][2]
            IN /\ (/\ lhs_ln # None /\ rhs_ln # None
                   /\ NoChangeData(lhs_ln, OldSides)
                   /\ NoChangeData(rhs_ln, NewSides)) =>
                      /\ Display.rows[i].left.highlights = << >>
                      /\ Display.rows[i].right.highlights = << >>
                      /\ \A k \in 1..Len(Display.hunk_starts) : Display.hunk_starts[k] # i - 1
               /\ (HasChangeData(lhs_ln, OldSides) /\ HasChangeData(rhs_ln, NewSides)) =>
                      /\ Display.rows[i].left.highlights # << >>
                      /\ Display.rows[i].right.highlights # << >>
                      /\ InsideHunk(i)

\* Lines 0 unchanged, lines 1 changed on both sides: hunk_starts = [1].
C27_Witness ==
    /\ Returned
    /\ file.status = "changed"
    /\ file.aligned_lines = << << Some(0), Some(0) >>, << Some(1), Some(1) >> >>
    /\ Len(old_lines) = 2 /\ Len(new_lines) = 2
    /\ NoChangeData(Some(0), OldSides) /\ NoChangeData(Some(0), NewSides)
    /\ HasChangeData(Some(1), OldSides) /\ HasChangeData(Some(1), NewSides)
    /\ Display.rows[1].left.highlights = << >>
    /\ Display.rows[1].right.highlights = << >>
    /\ Display.rows[2].left.highlights # << >>
    /\ Display.rows[2].right.highlights # << >>
    /\ Display.hunk_starts = << 1 >>

\* C28: the counts of a Changed file come from the chunks alone: every
\* line number a chunk names on a side counts once, in the alignment plan
\* or not, with an empty change list or not; an empty alignment plan gives
\* no rows and no hunk starts.
C28_CountsIgnoreAlignment ==
    (Returned /\ file.status = "changed") =>
        /\ Display.additions = Cardinality(NamedLines(NewSides))
        /\ Display.deletions = Cardinality(NamedLines(OldSides))
        /\ file.aligned_lines = << >> =>
              Display.rows = << >> /\ Display.hunk_starts = << >>

\* An empty alignment plan; old line 0 is named with an empty change list.
C28_Witness ==
    /\ Returned
    /\ file.status = "changed"
    /\ file.aligned_lines = << >>
    /\ Display.rows = << >>
    /\ Display.hunk_starts = << >>
    /\ Display.additions = 1
    /\ Display.deletions = 2
    /\ 0 \in NamedLines(OldSides)
    /\ LastWriteIndex(OldSides)[0] = << >>

\* ------------------------------------------- merge_regions, gap past the line
\* C29: in the merge pass, when the next change starts after the running
\* end and past the end of the line's bytes, it opens a new region, even
\* if every byte of the line inside the gap is whitespace.
C29_GapPastLineOpensRegion ==
    [][(MergePassStep /\ Running[2] < Incoming[1] /\ Incoming[1] > Len(LineBytes)) =>
          (OpensNewRegion /\ ~MergedIntoRunning)]_vars

\* " " with (0,0) and (2,3): the gap [0,2) holds the space and one offset
\* past the line; the second change is a region of its own.
C29_Witness ==
    /\ hl_pc = "merge"
    /\ content = << 32 >>
    /\ regions = << << 0, 0 >>, << 2, 3 >> >>
    /\ next_region = 2
    /\ merged = << << 0, 0 >>, << 2, 3 >> >>
    /\ LineBytesInGapAreWhitespace(0, 2)

\* ------------------------------------------------ parse_git_range (SpecRange)
\* Two, three dots begin at position i of the range.
DoubleDotAt(i) == i + 1 <= Len(range) /\ range[i] = Dot /\ range[i + 1] = Dot
TripleDotAt(i) == DoubleDotAt(i) /\ DoubleDotAt(i + 1)

HasDoubleDot == \E i \in 1..Len(range) : DoubleDotAt(i)
HasTripleDot == \E i \in 1..Len(range) : TripleDotAt(i)

FirstDoubleDot == CHOOSE i \in 1..Len(range) : DoubleDotAt(i) /\ \A j \in 1..(i - 1) : ~DoubleDotAt(j)
FirstTripleDot == CHOOSE i \in 1..Len(range) : TripleDotAt(i) /\ \A j \in 1..(i - 1) : ~TripleDotAt(j)

\* C26: a range without ".." gives (range^, range); a range with ".." and
\* no "..." gives the text before and after its first ".."; a range with
\* "..." gives, for the text A before and B after its first "...", the
\* merge-base of A and B, or A^ when none is found, and B.
C26_RangeForms ==
    refs # None =>
        /\ ~HasDoubleDot => refs[1] = << range \o << Caret >>, range >>
        /\ (HasDoubleDot /\ ~HasTripleDot) =>
              refs[1] = << SubSeq(range, 1, FirstDoubleDot - 1),
                           SubSeq(range, FirstDoubleDot + 2, Len(range)) >>
        /\ HasTripleDot =>
              refs[1] = << IF merge_base # None THEN merge_base[1]
                           ELSE SubSeq(range, 1, FirstTripleDot - 1) \o << Caret >>,
                           SubSeq(range, FirstTripleDot + 3, Len(range)) >>

\* "a...b" without a merge-base: ("a^", "b").
C26_Witness ==
    /\ range = << 97, Dot, Dot, Dot, 98 >>
    /\ merge_base = None
    /\ refs = Some(<< << 97, Caret >>, << 98 >> >>)

\* "..a": the left part is empty.
C26_WitnessEmptyLeft ==
    /\ range = << Dot, Dot, 97 >>
    /\ refs = Some(<< << >>, << 97 >> >>)

\* ------------------------------------------------------- parse (SpecParse)
\* The tokens of the input that are not whitespace, in order.
Significant == SelectSeq(json, LAMBDA t : t \notin {" ", "\n"})

\* An object token that has the required keys.
ValidObject(t) ==
    /\ t \in DOMAIN JsonObjects
    /\ JsonObjects[t].path # None
    /\ JsonObjects[t].language # None
    /\ JsonObjects[t].status # None

\* The file an object token describes; without aligned_lines (or chunks)
\* the alignment plan (the chunk list) is empty.
ExpectedFile(t) ==
    [path |-> JsonObjects[t].path[1],
     language |-> JsonObjects[t].language[1],
     status |-> JsonObjects[t].status[1],
     aligned_lines |-> IF JsonObjects[t].aligned_lines = None THEN << >>
                       ELSE JsonObjects[t].aligned_lines[1],
     chunks |-> IF JsonObjects[t].chunks = None THEN << >> ELSE JsonObjects[t].chunks[1]]

\* The whole input is a JSON array of file objects.
IsFileArray ==
    /\ Len(Significant) >= 2
    /\ Significant[1] = "["
    /\ Significant[Len(Significant)] = "]"
    /\ \/ Len(Significant) = 2
       \/ /\ Len(Significant) % 2 = 1
          /\ \A k \in 2..(Len(Significant) - 1) :
                IF k % 2 = 0 THEN ValidObject(Significant[k]) ELSE Significant[k] = ","

\* Every non-blank line is one file object.
EveryLineIsAFile ==
    /\ \A i \in 1..Len(json) : json[i] \notin {" ", "\n"} => ValidObject(json[i])
    /\ \A i, j \in 1..Len(json) :
          (i < j /\ json[i] \notin {" ", "\n"} /\ json[j] \notin {" ", "\n"}) =>
              \E k \in i..j : json[k] = "\n"

C25_WitnessArray ==
    /\ json = << "[", "B", "]", "\n" >>
    /\ parsed # None
    /\ is_ok(parsed[1])
    /\ Len(parsed[1].ok) = 1

\* ------------------------------------------------- run_diff_impl (SpecRun)
\* The stepwise process_file of Spec returns a result of the function
\* process_file the parallel map applies.
ProcessFileAgrees == Returned => Display \in process_file(file, old_lines, new_lines)

RunReturned == lua_result # None
FilesTable == lua_result[1].ok.files

\* What processing file i alone gives: process_file on the file and the
\* lines of the two contents the VCS has for its path.
AloneResults(i) ==
    process_file(files[i], into_lines(repo[files[i].path].old),
                 into_lines(repo[files[i].path].new))

\* C22: whatever the interleaving of the closures, a collected result is
\* at its file's position and is what processing that file alone gives,
\* and the returned files list has one entry per diff file, in input order.
C22_ParallelMapKeepsOrder ==
    /\ run_pc \in {"map", "done"} =>
          /\ Len(display_files) = Len(files)
          /\ \A i \in 1..Len(files) :
                /\ display_files[i] # None <=> workers[i].pc = "done"
                /\ display_files[i] # None => display_files[i][1] \in AloneResults(i)
    /\ run_pc = "done" =>
          /\ RunReturned /\ is_ok(lua_result[1])
          /\ Len(FilesTable) = Len(files)
          /\ \A i \in 1..Len(files) : FilesTable[i] \in AloneResults(i)

\* Three files whose closures returned in the order 3, 1, 2.
C22_Witness ==
    /\ run_pc = "done"
    /\ Len(files) = 3
    /\ finished = << 3, 1, 2 >>
    /\ FilesTable[1].path = "a.rs" /\ FilesTable[1].status = "changed"
    /\ FilesTable[2].path = "b.rs" /\ Len(FilesTable[2].rows) = 2
    /\ FilesTable[3].path = "c.rs" /\ Len(FilesTable[3].rows) = 0

\* ------------------------------------------------- into_lines (SpecWorker)
\* The lines of a text: the stretches that end at a "\n", the last one
\* also at the end of the text, each without the "\r" before its "\n".
TextLines(s) ==
    LET t == IF s # << >> /\ s[Len(s)] # 10 THEN Append(s, 10) ELSE s
        ends == {k \in 1..Len(t) : t[k] = 10}
        EndOf(j) == CHOOSE k \in ends : Cardinality({e \in ends : e < k}) = j - 1
        StartOf(j) == IF j = 1 THEN 1 ELSE EndOf(j - 1) + 1
        body(j) == SubSeq(t, StartOf(j), EndOf(j) - 1)
        KeepsCR(j) == EndOf(j) = Len(s) + 1
    IN [j \in 1..Cardinality(ends) |->
           IF body(j) # << >> /\ body(j)[Len(body(j))] = 13 /\ ~KeepsCR(j)
           THEN SubSeq(body(j), 1, Len(body(j)) - 1)
           ELSE body(j)]

ExpectedLines(c) == IF c = None THEN << >> ELSE TextLines(c[1])

\* C23: a side whose content could not be fetched has an empty line list,
\* a side with content the lines of that content in order; in both cases
\* the closure goes on: process_file has a result for the lines and the
\* file gets its entry.
C23_AbsentContentIsEmpty ==
    /\ \A i \in 1..Len(workers) :
          /\ workers[i].pc \in {"fetch_new", "process", "done"} =>
                workers[i].old_lines = ExpectedLines(repo[files[i].path].old)
          /\ workers[i].pc \in {"process", "done"} =>
                workers[i].new_lines = ExpectedLines(repo[files[i].path].new)
          /\ workers[i].pc = "process" =>
                process_file(files[i], workers[i].old_lines, workers[i].new_lines) # {}
          /\ workers[i].pc = "done" => display_files[i] # None
    /\ run_pc = "done" =>
          /\ RunReturned /\ is_ok(lua_result[1])
          /\ Len(FilesTable) = Len(files)

\* A Created file with no old content and the new content "\na\n".
C23_Witness ==
    /\ run_pc = "done"
    /\ files[1].status = "created"
    /\ repo[files[1].path].old = None
    /\ repo[files[1].path].new = Some(<< 10, 97, 10 >>)
    /\ workers[1].old_lines = << >>
    /\ workers[1].new_lines = << << >>, << 97 >> >>
    /\ Len(FilesTable[1].rows) = 2

\* ------------------------------------------- run_diff_impl's errors (SpecRun)
\* The diff command could not be started, failed, or printed what parse
\* rejects.
DiffFailed ==
    \/ ~diff_output.spawned
    \/ ~diff_output.success
    \/ ~is_ok(parse(diff_output.stdout))

Program == IF vcs = "git" THEN "git" ELSE "jj"

Mentions(msg, word) == \E k \in 1..Len(msg) : msg[k] = word

\* C24: when the diff command cannot be started, fails or prints what
\* cannot be parsed, run_diff_impl returns one error, whose message names
\* the command that was run (for unparsable output: difftastic, whose
\* JSON it is), and no file is processed and no table built; when only the
\* statistics command fails the run goes on with empty statistics.
C24_DiffFailureIsTheOnlyError ==
    run_pc # "start" =>
        /\ DiffFailed =>
              /\ run_pc = "error"
              /\ RunReturned /\ ~is_ok(lua_result[1])
              /\ (~diff_output.spawned \/ ~diff_output.success) =>
                    Mentions(lua_result[1].err, Program)
              /\ (diff_output.spawned /\ diff_output.success) =>
                    Mentions(lua_result[1].err, "difftastic")
              /\ files = << >> /\ workers = << >>
              /\ display_files = << >> /\ finished = << >>
        /\ ~DiffFailed =>
              /\ run_pc \in {"map", "done"}
              /\ stats_output = None => DOMAIN stats = {}
              /\ RunReturned => is_ok(lua_result[1])

\* git exits with a failure after printing a file: an error, no file.
C24_Witness ==
    /\ run_pc = "error"
    /\ vcs = "git"
    /\ diff_output.spawned /\ ~diff_output.success
    /\ is_ok(parse(diff_output.stdout))
    /\ lua_result = Some(Err(<< "git", "command", "failed", "fatal: bad revision" >>))
    /\ files = << >>

\* The statistics command failed and the run returned its three files.
C24_WitnessStats ==
    /\ run_pc = "done"
    /\ stats_output = None
    /\ DOMAIN stats = {}
    /\ is_ok(lua_result[1])
    /\ Len(FilesTable) = 3

====
